---- MODULE Spec2Model ----
(***************************************************************************)
(* A model of src/main.py: the text extractor (extract_text_from_file),    *)
(* the whitespace flattener (convert_to_single_string), the JSON recovery  *)
(* routine (clean_json_string with its nested convert_to_snake_case) and   *)
(* the request handler match_resume that wires them together.              *)
(*                                                                         *)
(* A Python str is a sequence of one-character strings.  A parsed value is *)
(* a record [t, n, s, items]: t is the Python type, n an int's value, s a  *)
(* str's characters, items the elements of a list/tuple/set or the         *)
(* [k, v] pairs of a dict in insertion order.                              *)
(***************************************************************************)
EXTENDS Integers, Sequences, FiniteSets, TLC

(***************************************************************************)
(* Characters                                                              *)
(***************************************************************************)
BS == "\\"
DQ == "\""
SQ == "'"
LF == "\n"
TAB == "\t"
CR == "\r"
FF == "\f"
\* The backtick character, which a TLA+ string cannot hold: a one-character atom.
BT == "<backtick>"
SP == " "

\* What str.strip(), str.split() and the regex class \s treat as whitespace.
PyWhitespace == {SP, TAB, LF, CR, FF}

\* json.decoder.WHITESPACE: [ \t\n\r]*
JsonWhitespace == {SP, TAB, LF, CR}

\* Characters below 0x20, which json rejects inside a string (strict mode).
ControlChars == {TAB, LF, CR, FF}

Digits == {"0", "1", "2", "3", "4", "5", "6", "7", "8", "9"}

UpperChars == <<"A", "B", "C", "D", "E", "F", "G", "H", "I", "J", "K", "L", "M",
                "N", "O", "P", "Q", "R", "S", "T", "U", "V", "W", "X", "Y", "Z">>
LowerChars == <<"a", "b", "c", "d", "e", "f", "g", "h", "i", "j", "k", "l", "m",
                "n", "o", "p", "q", "r", "s", "t", "u", "v", "w", "x", "y", "z">>

\* The regex class [A-Z].
IsUpper(c) == \E i \in 1..Len(UpperChars) : UpperChars[i] = c

IsLetter(c) == \E i \in 1..Len(UpperChars) : UpperChars[i] = c \/ LowerChars[i] = c

\* str.lower() on one character.
LowerChar(c) ==
  IF IsUpper(c)
  THEN LowerChars[CHOOSE i \in 1..Len(UpperChars) : UpperChars[i] = c]
  ELSE c

DigitValue(c) ==
  CASE c = "0" -> 0 [] c = "1" -> 1 [] c = "2" -> 2 [] c = "3" -> 3 [] c = "4" -> 4
    [] c = "5" -> 5 [] c = "6" -> 6 [] c = "7" -> 7 [] c = "8" -> 8 [] c = "9" -> 9

(***************************************************************************)
(* str methods                                                             *)
(***************************************************************************)
\* s[i:] of Python, with i a 1-based position here.
From(s, i) == SubSeq(s, i, Len(s))

\* s.startswith(p) at position i.
HasAt(s, i, p) == i + Len(p) - 1 <= Len(s) /\ SubSeq(s, i, i + Len(p) - 1) = p

startswith(s, p) == HasAt(s, 1, p)

endswith(s, p) == Len(p) <= Len(s) /\ HasAt(s, Len(s) - Len(p) + 1, p)

RECURSIVE lstrip(_)
lstrip(s) == IF s # <<>> /\ Head(s) \in PyWhitespace THEN lstrip(Tail(s)) ELSE s

RECURSIVE rstrip(_)
rstrip(s) ==
  IF s # <<>> /\ s[Len(s)] \in PyWhitespace THEN rstrip(SubSeq(s, 1, Len(s) - 1)) ELSE s

\* str.strip()
strip(s) == rstrip(lstrip(s))

\* str.lower()
lower(s) == [i \in 1..Len(s) |-> LowerChar(s[i])]

\* s.replace(old, new): every non-overlapping occurrence, left to right.
RECURSIVE replaceFrom(_, _, _, _)
replaceFrom(s, i, old, new) ==
  IF i > Len(s) THEN <<>>
  ELSE IF HasAt(s, i, old) THEN new \o replaceFrom(s, i + Len(old), old, new)
  ELSE <<s[i]>> \o replaceFrom(s, i + 1, old, new)

replace(s, old, new) == replaceFrom(s, 1, old, new)

\* sep.join(parts)
RECURSIVE join(_, _)
join(sep, parts) ==
  IF parts = <<>> THEN <<>>
  ELSE IF Len(parts) = 1 THEN parts[1]
  ELSE parts[1] \o sep \o join(sep, Tail(parts))

\* text.split(): the maximal runs of non-whitespace characters, in order.
RECURSIVE splitFrom(_, _, _)
splitFrom(s, i, word) ==
  IF i > Len(s) THEN (IF word = <<>> THEN <<>> ELSE <<word>>)
  ELSE IF s[i] \in PyWhitespace
       THEN (IF word = <<>> THEN <<>> ELSE <<word>>) \o splitFrom(s, i + 1, <<>>)
       ELSE splitFrom(s, i + 1, Append(word, s[i]))

split(s) == splitFrom(s, 1, <<>>)

(***************************************************************************)
(* Values                                                                  *)
(***************************************************************************)
IntV(n) == [t |-> "int", n |-> n, s |-> <<>>, items |-> <<>>]
StrV(s) == [t |-> "str", n |-> 0, s |-> s, items |-> <<>>]
LitV(name) == [t |-> name, n |-> 0, s |-> <<>>, items |-> <<>>]
ListV(items) == [t |-> "list", n |-> 0, s |-> <<>>, items |-> items]
TupleV(items) == [t |-> "tuple", n |-> 0, s |-> <<>>, items |-> items]
SetV(items) == [t |-> "set", n |-> 0, s |-> <<>>, items |-> items]
DictV(items) == [t |-> "dict", n |-> 0, s |-> <<>>, items |-> items]
NoneV == LitV("None")

\* d[k] = v on the pairs of a dict: an existing key keeps its position.
DictPut(pairs, k, v) ==
  IF \E j \in 1..Len(pairs) : pairs[j].k = k
  THEN [j \in 1..Len(pairs) |-> IF pairs[j].k = k THEN [k |-> k, v |-> v] ELSE pairs[j]]
  ELSE Append(pairs, [k |-> k, v |-> v])

\* dict(pairs): later duplicates of a key overwrite earlier ones.
RECURSIVE DictOfFrom(_, _, _)
DictOfFrom(pairs, i, acc) ==
  IF i > Len(pairs) THEN acc
  ELSE DictOfFrom(pairs, i + 1, DictPut(acc, pairs[i].k, pairs[i].v))

DictOf(pairs) == DictOfFrom(pairs, 1, <<>>)

(***************************************************************************)
(* json.loads: the decoder of Python's json package (json/decoder.py,      *)
(* json/scanner.py) on objects, arrays, strings, non-negative integers and *)
(* null/true/false.  A result is [ok, v, i]: whether the scan succeeded,   *)
(* the value, and the position after it.  Floats, signs and \uXXXX are not *)
(* part of the alphabet the inputs are drawn from.                         *)
(***************************************************************************)
\* F(v), with v evaluated once: a local variable of the Python code.
With(v, F(_)) == CHOOSE r \in {F(x) : x \in {v}} : TRUE

Fail == [ok |-> FALSE, v |-> NoneV, i |-> 0]
Ok(v, i) == [ok |-> TRUE, v |-> v, i |-> i]

RECURSIVE JsonSkip(_, _)
JsonSkip(s, i) ==
  IF i <= Len(s) /\ s[i] \in JsonWhitespace THEN JsonSkip(s, i + 1) ELSE i

\* json.decoder.BACKSLASH
JsonEscapes == {DQ, BS, "/", "b", "f", "n", "r", "t"}

JsonUnescape(c) ==
  CASE c = "n" -> LF [] c = "t" -> TAB [] c = "r" -> CR [] c = "f" -> FF
    [] c = "b" -> "<backspace>" [] OTHER -> c

\* py_scanstring, strict: s[i] is the character after the opening quote.
RECURSIVE scanstring(_, _, _)
scanstring(s, i, acc) ==
  IF i > Len(s) THEN Fail
  ELSE IF s[i] = DQ THEN Ok(acc, i + 1)
  ELSE IF s[i] \in ControlChars THEN Fail
  ELSE IF s[i] = BS
       THEN IF i + 1 <= Len(s) /\ s[i + 1] \in JsonEscapes
            THEN scanstring(s, i + 2, Append(acc, JsonUnescape(s[i + 1])))
            ELSE Fail
  ELSE scanstring(s, i + 1, Append(acc, s[i]))

RECURSIVE DigitsEnd(_, _)
DigitsEnd(s, i) == IF i <= Len(s) /\ s[i] \in Digits THEN DigitsEnd(s, i + 1) ELSE i

RECURSIVE DecimalValue(_, _, _)
DecimalValue(s, i, j) ==
  IF j < i THEN 0 ELSE 10 * DecimalValue(s, i, j - 1) + DigitValue(s[j])

\* NUMBER_RE's integer part: 0|[1-9]\d*
JsonNumber(s, i) ==
  IF s[i] = "0" THEN Ok(IntV(0), i + 1)
  ELSE With(DigitsEnd(s, i), LAMBDA e : Ok(IntV(DecimalValue(s, i, e - 1)), e))

RECURSIVE JsonValue(_, _)
RECURSIVE JSONObject(_, _)
RECURSIVE ObjectPairs(_, _, _)
RECURSIVE JSONArray(_, _)
RECURSIVE ArrayItems(_, _, _)

\* scan_once
JsonValue(s, i) ==
  IF i > Len(s) THEN Fail
  ELSE IF s[i] = DQ
       THEN With(scanstring(s, i + 1, <<>>),
                 LAMBDA r : IF r.ok THEN Ok(StrV(r.v), r.i) ELSE Fail)
  ELSE IF s[i] = "{" THEN JSONObject(s, i + 1)
  ELSE IF s[i] = "[" THEN JSONArray(s, i + 1)
  ELSE IF HasAt(s, i, <<"n", "u", "l", "l">>) THEN Ok(NoneV, i + 4)
  ELSE IF HasAt(s, i, <<"t", "r", "u", "e">>) THEN Ok(LitV("True"), i + 4)
  ELSE IF HasAt(s, i, <<"f", "a", "l", "s", "e">>) THEN Ok(LitV("False"), i + 5)
  ELSE IF s[i] \in Digits THEN JsonNumber(s, i)
  ELSE Fail

\* JSONObject: s[i] is the character after the opening brace.
JSONObject(s, i) ==
  With(JsonSkip(s, i), LAMBDA j :
    IF j > Len(s) THEN Fail
    ELSE IF s[j] = "}" THEN Ok(DictV(<<>>), j + 1)
    ELSE IF s[j] = DQ THEN ObjectPairs(s, j + 1, <<>>)
    ELSE Fail)

\* One "key": value pair and what follows it; s[i] follows the key's opening
\* quote.
ObjectPairs(s, i, pairs) ==
  With(scanstring(s, i, <<>>), LAMBDA key :
    IF ~key.ok THEN Fail
    ELSE With(JsonSkip(s, key.i), LAMBDA colon :
      IF colon > Len(s) \/ s[colon] # ":" THEN Fail
      ELSE With(JsonValue(s, JsonSkip(s, colon + 1)), LAMBDA value :
        IF ~value.ok THEN Fail
        ELSE With(JsonSkip(s, value.i), LAMBDA after :
          With(DictPut(pairs, StrV(key.v), value.v), LAMBDA more :
            IF after > Len(s) THEN Fail
            ELSE IF s[after] = "}" THEN Ok(DictV(more), after + 1)
            ELSE IF s[after] # "," THEN Fail
            ELSE With(JsonSkip(s, after + 1), LAMBDA next :
              IF next <= Len(s) /\ s[next] = DQ
              THEN ObjectPairs(s, next + 1, more)
              ELSE Fail))))))

\* JSONArray: s[i] is the character after the opening bracket.
JSONArray(s, i) ==
  With(JsonSkip(s, i), LAMBDA j :
    IF j <= Len(s) /\ s[j] = "]" THEN Ok(ListV(<<>>), j + 1)
    ELSE ArrayItems(s, j, <<>>))

ArrayItems(s, i, items) ==
  With(JsonValue(s, i), LAMBDA value :
    IF ~value.ok THEN Fail
    ELSE With(JsonSkip(s, value.i), LAMBDA after :
      With(Append(items, value.v), LAMBDA more :
        IF after > Len(s) THEN Fail
        ELSE IF s[after] = "]" THEN Ok(ListV(more), after + 1)
        ELSE IF s[after] # "," THEN Fail
        ELSE With(JsonSkip(s, after + 1), LAMBDA next : ArrayItems(s, next, more)))))

\* JSONDecoder.decode: one value, whitespace around it, nothing else.
json_loads(s) ==
  With(JsonValue(s, JsonSkip(s, 1)), LAMBDA r :
    IF r.ok /\ JsonSkip(s, r.i) = Len(s) + 1 THEN r ELSE Fail)

(***************************************************************************)
(* ast.literal_eval: Python's expression grammar on names, decimal         *)
(* integers, string literals (single, double and triple quoted, adjacent   *)
(* literals concatenated), list, dict and set displays, subscripts and     *)
(* top-level tuples, followed by literal_eval's conversion.  A result is   *)
(* [ok, bad, v, i]: ok is false for a SyntaxError; bad is true when the    *)
(* text parses and the conversion raises (ValueError for a node that is no *)
(* literal, TypeError for an unhashable key or element).  Keywords, string *)
(* prefixes, operators, parentheses, comments, floats, a backslash-newline *)
(* outside a string and the escapes \a \b \v \x \N \u \U and octal are not *)
(* part of the alphabet the inputs are drawn from.                         *)
(***************************************************************************)
PFail == [ok |-> FALSE, bad |-> FALSE, v |-> NoneV, i |-> 0]
POk(v, i) == [ok |-> TRUE, bad |-> FALSE, v |-> v, i |-> i]
PBad(i) == [ok |-> TRUE, bad |-> TRUE, v |-> NoneV, i |-> i]
PResult(bad, v, i) == [ok |-> TRUE, bad |-> bad, v |-> v, i |-> i]

Quotes == {SQ, DQ}

IsNameStart(c) == IsLetter(c) \/ c = "_"
IsNameChar(c) == IsNameStart(c) \/ c \in Digits

\* hash(v) succeeds: what a set element or a dict key must allow.
Hashable(v) == v.t \in {"int", "str", "None", "True", "False"}

\* The tokenizer's whitespace: blanks, and newlines too inside brackets.
RECURSIVE PySkip(_, _, _)
PySkip(s, i, nested) ==
  IF i > Len(s) THEN i
  ELSE IF s[i] \in {SP, TAB} THEN PySkip(s, i + 1, nested)
  ELSE IF nested /\ s[i] = LF THEN PySkip(s, i + 1, nested)
  ELSE i

\* What a backslash and the character c stand for in a string literal.
PyUnescape(c) ==
  CASE c = LF -> <<>> [] c = "n" -> <<LF>> [] c = "t" -> <<TAB>> [] c = "r" -> <<CR>>
    [] c = "f" -> <<FF>> [] c \in {BS, SQ, DQ} -> <<c>> [] OTHER -> <<BS, c>>

\* The body of a string literal opened by q (three of them when triple).
RECURSIVE PyStrBody(_, _, _, _, _)
PyStrBody(s, i, q, triple, acc) ==
  IF i > Len(s) THEN Fail
  ELSE IF triple /\ HasAt(s, i, <<q, q, q>>) THEN Ok(acc, i + 3)
  ELSE IF ~triple /\ s[i] = q THEN Ok(acc, i + 1)
  ELSE IF ~triple /\ s[i] = LF THEN Fail
  ELSE IF s[i] = BS
       THEN IF i + 1 > Len(s) THEN Fail
            ELSE PyStrBody(s, i + 2, q, triple, acc \o PyUnescape(s[i + 1]))
  ELSE PyStrBody(s, i + 1, q, triple, Append(acc, s[i]))

PyString(s, i) ==
  IF HasAt(s, i, <<s[i], s[i], s[i]>>) THEN PyStrBody(s, i + 3, s[i], TRUE, <<>>)
  ELSE PyStrBody(s, i + 1, s[i], FALSE, <<>>)

\* STRING+: adjacent literals are concatenated.
RECURSIVE PyStrings(_, _, _, _)
PyStrings(s, i, nested, acc) ==
  With(PyString(s, i), LAMBDA tok :
    IF ~tok.ok THEN PFail
    ELSE With(PySkip(s, tok.i, nested), LAMBDA j :
      With(acc \o tok.v, LAMBDA more :
        IF j <= Len(s) /\ s[j] \in Quotes THEN PyStrings(s, j, nested, more)
        ELSE POk(StrV(more), tok.i))))

\* The end of a decimal integer starting at i: digits, single underscores
\* between digits; 0 when the literal is malformed.
RECURSIVE PyNumberEnd(_, _)
PyNumberEnd(s, i) ==
  IF i <= Len(s) /\ s[i] \in Digits THEN PyNumberEnd(s, i + 1)
  ELSE IF i < Len(s) /\ s[i] = "_" /\ s[i + 1] \in Digits THEN PyNumberEnd(s, i + 2)
  ELSE IF i <= Len(s) /\ IsNameChar(s[i]) THEN 0
  ELSE i

RECURSIVE PyDecimalValue(_, _, _)
PyDecimalValue(s, i, j) ==
  IF j < i THEN 0
  ELSE IF s[j] = "_" THEN PyDecimalValue(s, i, j - 1)
  ELSE 10 * PyDecimalValue(s, i, j - 1) + DigitValue(s[j])

\* A literal with a leading zero must be all zeros.
PyNumber(s, i) ==
  With(PyNumberEnd(s, i), LAMBDA e :
    IF e = 0 THEN PFail
    ELSE IF s[i] = "0" /\ \E j \in i..(e - 1) : s[j] \notin {"0", "_"} THEN PFail
    ELSE POk(IntV(PyDecimalValue(s, i, e - 1)), e))

RECURSIVE PyNameEnd(_, _)
PyNameEnd(s, i) == IF i <= Len(s) /\ IsNameChar(s[i]) THEN PyNameEnd(s, i + 1) ELSE i

\* A name: the constants None, True and False are literals, any other name
\* is not.
PyName(s, i) ==
  With(PyNameEnd(s, i), LAMBDA e :
    With(SubSeq(s, i, e - 1), LAMBDA name :
      IF name = <<"N", "o", "n", "e">> THEN POk(NoneV, e)
      ELSE IF name = <<"T", "r", "u", "e">> THEN POk(LitV("True"), e)
      ELSE IF name = <<"F", "a", "l", "s", "e">> THEN POk(LitV("False"), e)
      ELSE PBad(e)))

\* set(items): duplicates dropped.
RECURSIVE PySetOf(_, _, _)
PySetOf(items, i, acc) ==
  IF i > Len(items) THEN acc
  ELSE With(IF \E j \in 1..Len(acc) : acc[j] = items[i] THEN acc ELSE Append(acc, items[i]),
            LAMBDA more : PySetOf(items, i + 1, more))

RECURSIVE PyExpr(_, _, _)
RECURSIVE PyTrailers(_, _, _)
RECURSIVE PyItems(_, _, _, _, _)
RECURSIVE PyDictItems(_, _, _, _)
RECURSIVE PySlices(_, _)

\* A list of expressions up to the closing character: the values so far and
\* whether one of them was no literal.
PyItems(s, i, closer, acc, bad) ==
  IF i > Len(s) THEN PFail
  ELSE IF s[i] = closer THEN PResult(bad, acc, i + 1)
  ELSE With(PyExpr(s, i, TRUE), LAMBDA e :
    IF ~e.ok THEN PFail
    ELSE With(PySkip(s, e.i, TRUE), LAMBDA j :
      With(IF e.bad THEN acc ELSE Append(acc, e.v), LAMBDA more :
        IF j > Len(s) THEN PFail
        ELSE IF s[j] = closer THEN PResult(bad \/ e.bad, more, j + 1)
        ELSE IF s[j] # "," THEN PFail
        ELSE With(PySkip(s, j + 1, TRUE), LAMBDA next :
          PyItems(s, next, closer, more, bad \/ e.bad)))))

\* key: value pairs up to the closing brace.
PyDictItems(s, i, pairs, bad) ==
  IF i > Len(s) THEN PFail
  ELSE IF s[i] = "}" THEN PResult(bad, pairs, i + 1)
  ELSE With(PyExpr(s, i, TRUE), LAMBDA key :
    IF ~key.ok THEN PFail
    ELSE With(PySkip(s, key.i, TRUE), LAMBDA colon :
      IF colon > Len(s) THEN PFail
      ELSE IF s[colon] # ":" THEN PFail
      ELSE With(PyExpr(s, PySkip(s, colon + 1, TRUE), TRUE), LAMBDA value :
        IF ~value.ok THEN PFail
        ELSE With(PySkip(s, value.i, TRUE), LAMBDA j :
          With(bad \/ key.bad \/ value.bad \/ ~Hashable(key.v), LAMBDA nowBad :
            With(IF nowBad THEN pairs ELSE DictPut(pairs, key.v, value.v), LAMBDA more :
              IF j > Len(s) THEN PFail
              ELSE IF s[j] = "}" THEN PResult(nowBad, more, j + 1)
              ELSE IF s[j] # "," THEN PFail
              ELSE With(PySkip(s, j + 1, TRUE), LAMBDA next :
                PyDictItems(s, next, more, nowBad))))))))

\* An optional expression at i, absent when s[i] is one of the stop
\* characters: the position after it, 0 for a syntax error.
PyOptionalEnd(s, i, stops) ==
  IF i > Len(s) THEN 0
  ELSE IF s[i] \in stops THEN i
  ELSE With(PyExpr(s, i, TRUE), LAMBDA e : IF e.ok THEN PySkip(s, e.i, TRUE) ELSE 0)

\* One slice of a subscript, [lower] [: [upper] [: [step]]], not empty: the
\* position after it, 0 for a syntax error.
PySliceEnd(s, i) ==
  With(PyOptionalEnd(s, i, {":"}), LAMBDA c1 :
    IF c1 = 0 \/ c1 > Len(s) THEN 0
    ELSE IF s[c1] # ":" THEN c1
    ELSE With(PyOptionalEnd(s, PySkip(s, c1 + 1, TRUE), {":", ",", "]"}), LAMBDA c2 :
      IF c2 = 0 \/ c2 > Len(s) THEN 0
      ELSE IF s[c2] # ":" THEN c2
      ELSE PyOptionalEnd(s, PySkip(s, c2 + 1, TRUE), {",", "]"})))

\* The slices of a subscript up to the closing bracket: the position after
\* it, or 0.
PySlices(s, i) ==
  With(PySliceEnd(s, i), LAMBDA j :
    IF j = 0 \/ j > Len(s) THEN 0
    ELSE IF s[j] = "]" THEN j + 1
    ELSE IF s[j] # "," THEN 0
    ELSE With(PySkip(s, j + 1, TRUE), LAMBDA k :
      IF k <= Len(s) /\ s[k] = "]" THEN k + 1 ELSE PySlices(s, k)))

\* Subscripts after the primary r: a Subscript node is no literal.
PyTrailers(s, r, nested) ==
  With(PySkip(s, r.i, nested), LAMBDA j :
    IF j <= Len(s) /\ s[j] = "["
    THEN With(PySlices(s, PySkip(s, j + 1, TRUE)), LAMBDA e :
           IF e = 0 THEN PFail ELSE PyTrailers(s, PBad(e), nested))
    ELSE r)

PyAtom(s, i, nested) ==
  IF i > Len(s) THEN PFail
  ELSE IF s[i] \in Quotes THEN PyStrings(s, i, nested, <<>>)
  ELSE IF s[i] \in Digits THEN PyNumber(s, i)
  ELSE IF IsNameStart(s[i]) THEN PyName(s, i)
  ELSE IF s[i] = "["
       THEN With(PyItems(s, PySkip(s, i + 1, TRUE), "]", <<>>, FALSE), LAMBDA r :
              IF ~r.ok THEN PFail
              ELSE IF r.bad THEN PBad(r.i)
              ELSE POk(ListV(r.v), r.i))
  ELSE IF s[i] = "{"
       THEN With(PySkip(s, i + 1, TRUE), LAMBDA j :
              With(PyDictItems(s, j, <<>>, FALSE), LAMBDA d :
                IF d.ok
                THEN (IF d.bad THEN PBad(d.i) ELSE POk(DictV(d.v), d.i))
                ELSE With(PyItems(s, j, "}", <<>>, FALSE), LAMBDA e :
                  IF ~e.ok THEN PFail
                  ELSE IF e.bad \/ \E k \in 1..Len(e.v) : ~Hashable(e.v[k]) THEN PBad(e.i)
                  ELSE POk(SetV(PySetOf(e.v, 1, <<>>)), e.i))))
  ELSE PFail

PyExpr(s, i, nested) ==
  With(PyAtom(s, i, nested), LAMBDA a :
    IF ~a.ok THEN PFail ELSE PyTrailers(s, a, nested))

\* expression (',' expression)* [',']  at the top level: a tuple when a comma
\* is present.
RECURSIVE PyTopItems(_, _, _, _, _)
PyTopItems(s, i, acc, bad, comma) ==
  With(PyExpr(s, i, FALSE), LAMBDA e :
    IF ~e.ok THEN PFail
    ELSE With(PySkip(s, e.i, FALSE), LAMBDA j :
      With(IF e.bad THEN acc ELSE Append(acc, e.v), LAMBDA more :
        IF j <= Len(s) /\ s[j] = ","
        THEN With(PySkip(s, j + 1, FALSE), LAMBDA k :
               IF k > Len(s) \/ s[k] = LF
               THEN PResult(bad \/ e.bad, TupleV(more), k)
               ELSE PyTopItems(s, k, more, bad \/ e.bad, TRUE))
        ELSE IF comma THEN PResult(bad \/ e.bad, TupleV(more), j)
        ELSE PResult(e.bad, e.v, j))))

\* The start of the first line that is not blank, from the line starting at i.
RECURSIVE PyFirstLine(_, _)
PyFirstLine(s, i) ==
  With(PySkip(s, i, FALSE), LAMBDA j :
    IF j <= Len(s) /\ s[j] = LF THEN PyFirstLine(s, j + 1) ELSE i)

\* Whether only blank lines, each ended by its newline, follow the line
\* starting at i: the tokenizer takes blanks on a last line without a newline
\* for an indent.
RECURSIVE PyBlankLines(_, _)
PyBlankLines(s, i) ==
  IF i > Len(s) THEN TRUE
  ELSE With(PySkip(s, i, FALSE), LAMBDA j :
    IF j <= Len(s) /\ s[j] = LF THEN PyBlankLines(s, j + 1) ELSE FALSE)

RECURSIVE lstripBlanks(_)
lstripBlanks(s) == IF s # <<>> /\ Head(s) \in {SP, TAB} THEN lstripBlanks(Tail(s)) ELSE s

\* ast.parse(s, mode="eval") and the conversion of its body.
PyEval(s) ==
  With(PyFirstLine(s, 1), LAMBDA start :
    IF start > Len(s) \/ PySkip(s, start, FALSE) # start THEN PFail
    ELSE With(PyTopItems(s, start, <<>>, FALSE, FALSE), LAMBDA r :
      IF ~r.ok THEN PFail
      ELSE IF r.i <= Len(s) /\ (s[r.i] # LF \/ ~PyBlankLines(s, r.i + 1)) THEN PFail
      ELSE r))

\* literal_eval: ast.parse(text.lstrip(" \t"), mode="eval"), then _convert.
literal_eval(text) == With(lstripBlanks(text), LAMBDA s : PyEval(s))

(***************************************************************************)
(* clean_json_string: the substitutions                                    *)
(***************************************************************************)
Fence == <<BT, BT, BT>>

\* Where the regex $ matches without re.M: at the end, or before a final newline.
AtDollar(s, i) == i = Len(s) + 1 \/ (i = Len(s) /\ s[i] = LF)

\* The first position >= i holding a newline, 0 when there is none.
RECURSIVE FirstNewline(_, _)
FirstNewline(s, i) ==
  IF i > Len(s) THEN 0 ELSE IF s[i] = LF THEN i ELSE FirstNewline(s, i + 1)

\* Length of the match of  ^```.*?\n|```$  (re.S) at position i, 0 for no match.
FenceMatch(s, i) ==
  IF i = 1 /\ HasAt(s, 1, Fence) /\ FirstNewline(s, 4) # 0 THEN FirstNewline(s, 4)
  ELSE IF HasAt(s, i, Fence) /\ AtDollar(s, i + 3) THEN 3
  ELSE 0

\* re.sub(r"^```.*?\n|```$", "", s, flags=re.S)
RECURSIVE FenceSub(_, _)
FenceSub(s, i) ==
  IF i > Len(s) THEN <<>>
  ELSE IF FenceMatch(s, i) > 0 THEN FenceSub(s, i + FenceMatch(s, i))
  ELSE <<s[i]>> \o FenceSub(s, i + 1)

\* The position after the run of \s characters starting at i.
RECURSIVE SpaceEnd(_, _)
SpaceEnd(s, i) ==
  IF i <= Len(s) /\ s[i] \in PyWhitespace THEN SpaceEnd(s, i + 1) ELSE i

\* re.sub(r'\\n\s*', '', s)
RECURSIVE EscapedNewlineSub(_, _)
EscapedNewlineSub(s, i) ==
  IF i > Len(s) THEN <<>>
  ELSE IF HasAt(s, i, <<BS, "n">>) THEN EscapedNewlineSub(s, SpaceEnd(s, i + 2))
  ELSE <<s[i]>> \o EscapedNewlineSub(s, i + 1)

\* re.sub(r'\\["\'ntr]', ' ', s)
RECURSIVE AggressiveSub(_, _)
AggressiveSub(s, i) ==
  IF i > Len(s) THEN <<>>
  ELSE IF s[i] = BS /\ i < Len(s) /\ s[i + 1] \in {DQ, SQ, "n", "t", "r"}
       THEN <<SP>> \o AggressiveSub(s, i + 2)
  ELSE <<s[i]>> \o AggressiveSub(s, i + 1)

(***************************************************************************)
(* convert_to_snake_case                                                   *)
(***************************************************************************)
\* re.sub(r'(?<!^)(?=[A-Z])', '_', k): an underscore before every upper-case
\* letter that is not at the start.
RECURSIVE UnderscoreSub(_, _)
UnderscoreSub(k, i) ==
  IF i > Len(k) THEN <<>>
  ELSE (IF i > 1 /\ IsUpper(k[i]) THEN <<"_", k[i]>> ELSE <<k[i]>>)
       \o UnderscoreSub(k, i + 1)

\* The key lowercased only, and the key with its underscores only.
snake_key_no_underscore(k) == lower(k)
snake_key_no_lower(k) == UnderscoreSub(k, 1)

snake_key(k) == lower(UnderscoreSub(k, 1))

\* Whether convert_to_snake_case(obj) raises: re.sub is given a key that is no
\* str (TypeError).  Only dicts and lists are walked.
RECURSIVE SnakeRaises(_)
SnakeRaises(obj) ==
  IF obj.t = "dict"
  THEN \E j \in 1..Len(obj.items) :
         obj.items[j].k.t # "str" \/ SnakeRaises(obj.items[j].v)
  ELSE IF obj.t = "list"
  THEN \E j \in 1..Len(obj.items) : SnakeRaises(obj.items[j])
  ELSE FALSE

RECURSIVE convert_to_snake_case(_)
convert_to_snake_case(obj) ==
  IF obj.t = "dict"
  THEN DictV(DictOf([j \in 1..Len(obj.items) |->
                       [k |-> StrV(snake_key(obj.items[j].k.s)),
                        v |-> convert_to_snake_case(obj.items[j].v)]]))
  ELSE IF obj.t = "list"
  THEN ListV([j \in 1..Len(obj.items) |-> convert_to_snake_case(obj.items[j])])
  ELSE obj

(***************************************************************************)
(* clean_json_string: the parse strategies and the failure record          *)
(***************************************************************************)
\* What one strategy gives: a value, a JSONDecodeError or SyntaxError (which
\* line 106 catches), or any other exception (which it does not).
Value(v) == [kind |-> "value", v |-> v]
ParseError == [kind |-> "parse_error", v |-> NoneV]
OtherError == [kind |-> "other_error", v |-> NoneV]

Loads(s) == With(json_loads(s), LAMBDA r : IF r.ok THEN Value(r.v) ELSE ParseError)

NumAttempts == 5

\* The list with the literal-expression parse put first.
parsing_attempts_reordered(n, s) ==
  CASE n = 1 -> With(literal_eval(s), LAMBDA r :
                  IF ~r.ok THEN ParseError
                  ELSE IF r.bad THEN OtherError
                  ELSE Value(r.v))
    [] n = 2 -> Loads(s)
    [] n = 3 -> Loads(EscapedNewlineSub(s, 1))
    [] n = 4 -> Loads(replace(replace(s, <<BS, DQ>>, <<DQ>>), <<BS, "n">>, <<SP>>))
    [] n = 5 -> Loads(AggressiveSub(s, 1))

\* parsing_attempts[n - 1](s)
parsing_attempts(n, s) ==
  CASE n = 1 -> Loads(s)
    [] n = 2 -> Loads(EscapedNewlineSub(s, 1))
    [] n = 3 -> Loads(replace(replace(s, <<BS, DQ>>, <<DQ>>), <<BS, "n">>, <<SP>>))
    [] n = 4 -> Loads(AggressiveSub(s, 1))
    [] n = 5 -> With(literal_eval(s), LAMBDA r :
                  IF ~r.ok THEN ParseError
                  ELSE IF r.bad THEN OtherError
                  ELSE Value(r.v))

\* Lines 84-85: the working string.
IsFenced(s) == startswith(strip(s), Fence) /\ endswith(strip(s), Fence)

Defenced(s) == IF IsFenced(s) THEN FenceSub(strip(s), 1) ELSE s

ErrorKey == <<"e", "r", "r", "o", "r">>
OriginalStringKey ==
  <<"o", "r", "i", "g", "i", "n", "a", "l", "_", "s", "t", "r", "i", "n", "g">>
ErrorDetailsKey == <<"e", "r", "r", "o", "r", "_", "d", "e", "t", "a", "i", "l", "s">>
ErrorMessage ==
  <<"F", "a", "i", "l", "e", "d", " ", "t", "o", " ", "p", "a", "r", "s", "e", " ",
    "J", "S", "O", "N">>
ErrorDetailsMessage ==
  <<"A", "l", "l", " ", "p", "a", "r", "s", "i", "n", "g", " ", "a", "t", "t", "e",
    "m", "p", "t", "s", " ", "f", "a", "i", "l", "e", "d">>

\* Lines 110-114, with the string that original_string is given.
FailureRecord(s) ==
  DictV(<<[k |-> StrV(ErrorKey), v |-> StrV(ErrorMessage)],
          [k |-> StrV(OriginalStringKey), v |-> StrV(s)],
          [k |-> StrV(ErrorDetailsKey), v |-> StrV(ErrorDetailsMessage)]>>)

(***************************************************************************)
(* extract_text_from_file and convert_to_single_string                     *)
(***************************************************************************)
\* An uploaded file is [filename, format, segs]: format is what the bytes
\* are (a PDF, a DOCX, UTF-8 text, or none of these), segs what the reader of
\* that format finds in them: the pages' texts, the paragraphs' texts, or the
\* decoded text as the only element.  A reader given bytes of another format
\* raises.
Raise(status, detail) == [kind |-> "raise", status |-> status, detail |-> detail, text |-> <<>>]
Return(text) == [kind |-> "return", status |-> 0, detail |-> <<>>, text |-> text]

\* [page.extract_text() for page in pdf_reader.pages]
PagesText(file) == file.segs

\* Every paragraph's text, the empty ones too.
ParagraphsTextAll(segs) == segs

\* [para.text for para in docx_file.paragraphs if para.text]
RECURSIVE ParagraphsText(_)
ParagraphsText(segs) ==
  IF segs = <<>> THEN <<>>
  ELSE (IF Head(segs) # <<>> THEN <<Head(segs)>> ELSE <<>>) \o ParagraphsText(Tail(segs))

\* Lines 26-46: the body of the try block.
ExtractBody(file) ==
  IF endswith(lower(file.filename), <<".", "p", "d", "f">>)
  THEN IF file.format = "pdf" THEN Return(join(<<SP>>, PagesText(file)))
       ELSE Raise(0, <<"PdfReadError">>)
  ELSE IF endswith(lower(file.filename), <<".", "d", "o", "c", "x">>)
  THEN IF file.format = "docx" THEN Return(join(<<SP>>, ParagraphsText(file.segs)))
       ELSE Raise(0, <<"BadZipFile">>)
  ELSE IF endswith(lower(file.filename), <<".", "t", "x", "t">>)
  THEN IF file.format = "utf8" THEN Return(file.segs[1])
       ELSE Raise(0, <<"UnicodeDecodeError">>)
  ELSE Raise(400, <<"Unsupported file type">>)

\* Lines 24-48: line 47 catches every exception of the body, the
\* HTTPException of line 44 included, and raises a new one with status 500.
extract_text_from_file(file) ==
  IF ExtractBody(file).kind = "raise"
  THEN Raise(500, <<"Error extracting text: ", "str(e)">>)
  ELSE ExtractBody(file)

\* ' '.join(text.split())
convert_to_single_string(text) == join(<<SP>>, split(text))

\* json.dumps in JSONResponse.render: a set is not serializable.
RECURSIVE Serializable(_)
Serializable(v) ==
  IF v.t = "set" THEN FALSE
  ELSE IF v.t = "dict" THEN \A j \in 1..Len(v.items) : Serializable(v.items[j].v)
  ELSE IF v.t \in {"list", "tuple"} THEN \A j \in 1..Len(v.items) : Serializable(v.items[j])
  ELSE TRUE

(***************************************************************************)
(* The inputs: what the remote service may answer and what may be uploaded *)
(***************************************************************************)
\* Nodes of a JSON document sent as plain JSON, and of one sent in another
\* style or inside a fence; length of a string of loose characters; segments
\* (pages, paragraphs) of an uploaded document.
MaxNodes == 3
MaxStyledNodes == 2
MaxRaw == 3
MaxSegs == 3

Keys == {<<"a", "B">>, <<"A", "b">>, <<"a", "_", "b">>}
Scalars == {IntV(7), StrV(<<"J", "a">>)}

\* The documents of exactly n nodes: a scalar, or a dict or list whose
\* children have n - 1 nodes together.  The pairs of a dict document are the
\* pairs as written, a key possibly twice.
RECURSIVE DocsOfSize(_)
RECURSIVE ChildrenOfSize(_, _)
ChildrenOfSize(n, keyed) ==
  IF n = 0 THEN {<<>>}
  ELSE UNION {
         IF keyed
         THEN {<<[k |-> StrV(key), v |-> c]>> \o rest :
                 key \in Keys, c \in DocsOfSize(m), rest \in ChildrenOfSize(n - m, keyed)}
         ELSE {<<c>> \o rest : c \in DocsOfSize(m), rest \in ChildrenOfSize(n - m, keyed)}
         : m \in 1..n}

DocsOfSize(n) ==
  IF n = 1 THEN Scalars \cup {DictV(<<>>), ListV(<<>>)}
  ELSE {DictV(c) : c \in ChildrenOfSize(n - 1, TRUE)}
       \cup {ListV(c) : c \in ChildrenOfSize(n - 1, FALSE)}

Docs(n) == UNION {DocsOfSize(m) : m \in 1..n}

RECURSIVE Decimal(_)
Decimal(n) ==
  LET d == <<"0", "1", "2", "3", "4", "5", "6", "7", "8", "9">>[(n % 10) + 1]
  IN  IF n < 10 THEN <<d>> ELSE Append(Decimal(n \div 10), d)

\* How a document is written: the quote around strings, what is put after an
\* opening bracket, after a comma and before a closing bracket, how keys are
\* written, and whether the last character is missing.
PlainStyle == [q |-> <<DQ>>, gap |-> <<>>, keys |-> "quoted", cut |-> FALSE]
Styles ==
  { [PlainStyle EXCEPT !.q = <<BS, DQ>>],
    [PlainStyle EXCEPT !.gap = <<BS, "n", SP>>],
    [PlainStyle EXCEPT !.gap = <<BS, "t">>],
    [PlainStyle EXCEPT !.gap = <<LF, SP>>],
    [PlainStyle EXCEPT !.q = <<SQ>>],
    [PlainStyle EXCEPT !.keys = "bare"],
    [PlainStyle EXCEPT !.q = <<SQ>>, !.keys = "index"],
    [PlainStyle EXCEPT !.cut = TRUE] }

RECURSIVE Render(_, _)
RECURSIVE RenderItems(_, _, _)
RenderItems(d, j, st) ==
  LET key == CASE st.keys = "quoted" -> st.q \o d.items[j].k.s \o st.q
               [] st.keys = "bare" -> d.items[j].k.s
               [] st.keys = "index" -> Decimal(j)
      item == IF d.t = "dict" THEN key \o <<":", SP>> \o Render(d.items[j].v, st)
              ELSE Render(d.items[j], st)
  IN  IF j = Len(d.items) THEN item
      ELSE item \o <<",">> \o (IF st.gap = <<>> THEN <<SP>> ELSE st.gap)
                \o RenderItems(d, j + 1, st)

Render(d, st) ==
  IF d.t = "int" THEN Decimal(d.n)
  ELSE IF d.t = "str" THEN st.q \o d.s \o st.q
  ELSE IF d.t = "dict"
  THEN IF d.items = <<>> THEN <<"{", "}">>
       ELSE <<"{">> \o st.gap \o RenderItems(d, 1, st) \o st.gap \o <<"}">>
  ELSE IF d.items = <<>> THEN <<"[", "]">>
       ELSE <<"[">> \o st.gap \o RenderItems(d, 1, st) \o st.gap \o <<"]">>

Written(d, st) ==
  IF st.cut THEN SubSeq(Render(d, st), 1, Len(Render(d, st)) - 1) ELSE Render(d, st)

\* What is put around the text: nothing, blanks, a fence with or without a
\* language tag, a fence on the text's own line, a fence inside blanks, a
\* fence that is never closed.
Wrappers == {"none", "blanks", "fence", "tagged", "inline", "padded", "open"}

Wrap(w, s) ==
  CASE w = "none" -> s
    [] w = "blanks" -> <<LF, SP>> \o s \o <<SP, LF>>
    [] w = "fence" -> Fence \o <<LF>> \o s \o <<LF>> \o Fence
    [] w = "tagged" -> Fence \o <<"j", "s", "o", "n", LF>> \o s \o <<LF>> \o Fence
    [] w = "inline" -> Fence \o s \o Fence
    [] w = "padded" -> <<SP>> \o Fence \o <<LF>> \o s \o <<LF>> \o Fence \o <<SP, LF>>
    [] w = "open" -> Fence \o <<LF>> \o s

RawChars == {"a", "1", DQ, SQ, "{", "}", "[", "]", ":"}

RECURSIVE StringsOfLength(_)
StringsOfLength(n) ==
  IF n = 0 THEN {<<>>} ELSE {Append(s, c) : s \in StringsOfLength(n - 1), c \in RawChars}

\* The scenarios of the documentation, and bare words.
Examples ==
  { <<"{", DQ, "c", "a", "n", "d", "i", "d", "a", "t", "e", "N", "a", "m", "e", DQ, ":", SP,
      DQ, "J", "a", "n", "e", DQ, ",", SP,
      DQ, "s", "c", "o", "r", "e", "O", "u", "t", "O", "f", "T", "e", "n", DQ, ":", SP, "7", "}">>,
    <<"{", DQ, "o", "v", "e", "r", "a", "l", "l", "S", "c", "o", "r", "e", DQ, ":", SP, "7", "}">>,
    <<"n", "o", "t", SP, "j", "s", "o", "n", SP, "a", "t", SP, "a", "l", "l">>,
    <<"h", "e", "l", "l", "o">>,
    Fence \o <<"j", "s", "o", "n", LF, "{", DQ, "a", DQ, ":", SP, "1", "}", LF>> \o Fence,
    Fence \o <<"j", "s", "o", "n", LF, "h", "e", "l", "l", "o", SP, "a", LF>> \o Fence }

Inputs ==
  {Written(d, PlainStyle) : d \in Docs(MaxNodes)}
  \cup {Wrap(w, Written(d, PlainStyle)) : w \in Wrappers, d \in Docs(MaxStyledNodes)}
  \cup {Wrap(w, Written(d, st)) : w \in Wrappers, d \in Docs(MaxStyledNodes), st \in Styles}
  \cup UNION {StringsOfLength(n) : n \in 0..MaxRaw}
  \cup Examples

FileNames ==
  { <<"c", "v", ".", "p", "d", "f">>, <<"C", "V", ".", "P", "D", "F">>,
    <<"c", "v", ".", "d", "o", "c", "x">>, <<"c", "v", ".", "T", "x", "t">>,
    <<"c", "v", ".", "r", "t", "f">>, <<"p", "d", "f">> }

SegTexts == {<<>>, <<"H", "i">>, <<"a", LF, SP, "b">>}

RECURSIVE SegsOfLength(_)
SegsOfLength(n) ==
  IF n = 0 THEN {<<>>} ELSE {Append(s, t) : s \in SegsOfLength(n - 1), t \in SegTexts}

Contents ==
  {[format |-> f, segs |-> g] :
     f \in {"pdf", "docx"}, g \in UNION {SegsOfLength(n) : n \in 0..MaxSegs}}
  \cup {[format |-> "utf8", segs |-> <<t>>] : t \in SegTexts}
  \cup {[format |-> "binary", segs |-> <<>>]}

Files ==
  {[filename |-> n, format |-> c.format, segs |-> c.segs] : n \in FileNames, c \in Contents}

NoFile == [filename |-> <<>>, format |-> "binary", segs |-> <<>>]

\* What the remote service's answer holds as the first choice's content; a
\* call that raises instead (no connection, a body that is no JSON, an empty
\* list of choices) is PostFails below.
Replies ==
  {Wrap(w, Written(d, st)) :
     w \in {"none", "tagged", "inline"}, d \in Docs(1), st \in Styles \cup {PlainStyle}}
  \cup UNION {StringsOfLength(n) : n \in 0..1}

(***************************************************************************)
(* State                                                                   *)
(***************************************************************************)
Unset == LitV("unset")
NoResult == [kind |-> "none", v |-> Unset]
NoResponse == [status |-> 0, kind |-> "none", body |-> Unset, detail |-> <<>>]
NoExtract == [kind |-> "none", status |-> 0, detail |-> <<>>, text |-> <<>>]

VARIABLES
  entry,          \* the function the run calls: match_resume, or one of the two alone
  pc,             \* where the run is
  file,           \* the uploaded file
  extracted,      \* what extract_text_from_file returned or raised
  resume_string,  \* line 136
  posted,         \* whether requests.post was called (line 190)
  argument,       \* the string clean_json_string was called with
  json_string,    \* its local variable, reassigned by line 85
  attempts,       \* what each strategy tried so far gave, in order
  parsed_json,    \* line 100
  result,         \* what clean_json_string returned or raised
  response        \* the JSONResponse of match_resume

vars == <<entry, pc, file, extracted, resume_string, posted, argument, json_string,
          attempts, parsed_json, result, response>>

cleanVars == <<argument, json_string, attempts, parsed_json, result>>

InitCommon ==
  /\ extracted = NoExtract
  /\ resume_string = <<>>
  /\ posted = FALSE
  /\ attempts = <<>>
  /\ parsed_json = Unset
  /\ result = NoResult
  /\ response = NoResponse

\* A request to /match-resume.
Init ==
  /\ entry = "match_resume"
  /\ pc = "extract"
  /\ file \in Files
  /\ argument = <<>>
  /\ json_string = <<>>
  /\ InitCommon

\* clean_json_string called on a string.
InitClean ==
  /\ entry = "clean_json_string"
  /\ pc = "defence"
  /\ file = NoFile
  /\ argument \in Inputs
  /\ json_string = argument
  /\ InitCommon

\* extract_text_from_file called on a file.
InitExtract ==
  /\ entry = "extract_text_from_file"
  /\ pc = "extract"
  /\ file \in Files
  /\ argument = <<>>
  /\ json_string = <<>>
  /\ InitCommon

(***************************************************************************)
(* extract_text_from_file, and lines 135-136 and 208-209 of match_resume   *)
(***************************************************************************)
Extract ==
  /\ pc = "extract"
  /\ extracted' = extract_text_from_file(file)
  /\ IF entry = "extract_text_from_file"
     THEN /\ pc' = "done"
          /\ UNCHANGED <<resume_string, response>>
     ELSE IF extracted'.kind = "raise"
     THEN /\ pc' = "done"
          /\ response' = [status |-> extracted'.status, kind |-> "detail",
                          body |-> Unset, detail |-> extracted'.detail]
          /\ UNCHANGED resume_string
     ELSE /\ pc' = "post"
          /\ resume_string' = convert_to_single_string(extracted'.text)
          /\ UNCHANGED response
  /\ UNCHANGED <<entry, file, posted>>
  /\ UNCHANGED cleanVars

(***************************************************************************)
(* Lines 190-204: the request to the service, and the call of              *)
(* clean_json_string on the content of its answer                          *)
(***************************************************************************)
Post ==
  /\ pc = "post"
  /\ posted' = TRUE
  /\ \E content \in Replies :
       /\ argument' = content
       /\ json_string' = content
  /\ pc' = "defence"
  /\ UNCHANGED <<entry, file, extracted, resume_string, attempts, parsed_json, result,
                 response>>

\* requests.post, response.json() or the indexing of line 201 raises: lines
\* 210-211.
PostFails ==
  /\ pc = "post"
  /\ posted' = TRUE
  /\ pc' = "done"
  /\ response' = [status |-> 500, kind |-> "detail", body |-> Unset,
                  detail |-> <<"str(e)">>]
  /\ UNCHANGED <<entry, file, extracted, resume_string>>
  /\ UNCHANGED cleanVars

(***************************************************************************)
(* clean_json_string                                                       *)
(***************************************************************************)
\* Lines 84-85.
Defence ==
  /\ pc = "defence"
  /\ json_string' = Defenced(json_string)
  /\ pc' = "attempt"
  /\ UNCHANGED <<entry, file, extracted, resume_string, posted, argument, attempts,
                 parsed_json, result, response>>

\* Lines 97-107: one turn of the loop.  A value is converted and returned; a
\* JSONDecodeError or SyntaxError goes on to the next strategy; any other
\* exception, of the strategy or of convert_to_snake_case, leaves the function.
Attempt ==
  /\ pc = "attempt"
  /\ Len(attempts) < NumAttempts
  /\ \E got \in {parsing_attempts(Len(attempts) + 1, json_string)} :
       /\ attempts' = Append(attempts, got.kind)
       /\ IF got.kind = "parse_error"
          THEN UNCHANGED <<parsed_json, result, pc>>
          ELSE IF got.kind = "other_error"
          THEN /\ result' = [kind |-> "raise", v |-> Unset]
               /\ pc' = "exit"
               /\ UNCHANGED parsed_json
          ELSE /\ parsed_json' = got.v
               /\ result' = IF SnakeRaises(got.v) THEN [kind |-> "raise", v |-> Unset]
                            ELSE [kind |-> "return", v |-> convert_to_snake_case(got.v)]
               /\ pc' = "exit"
  /\ UNCHANGED <<entry, file, extracted, resume_string, posted, argument, json_string,
                 response>>

\* Lines 109-114.
GiveUp ==
  /\ pc = "attempt"
  /\ Len(attempts) = NumAttempts
  /\ result' = [kind |-> "return", v |-> FailureRecord(json_string)]
  /\ pc' = "exit"
  /\ UNCHANGED <<entry, file, extracted, resume_string, posted, argument, json_string,
                 attempts, parsed_json, response>>

(***************************************************************************)
(* Lines 206 and 210-211 of match_resume                                   *)
(***************************************************************************)
Respond ==
  /\ pc = "exit"
  /\ entry = "match_resume"
  /\ response' = IF result.kind = "return" /\ Serializable(result.v)
                 THEN [status |-> 200, kind |-> "content", body |-> result.v,
                       detail |-> <<>>]
                 ELSE [status |-> 500, kind |-> "detail", body |-> Unset,
                       detail |-> <<"str(e)">>]
  /\ pc' = "done"
  /\ UNCHANGED <<entry, file, extracted, resume_string, posted>>
  /\ UNCHANGED cleanVars

Next == Extract \/ Post \/ PostFails \/ Defence \/ Attempt \/ GiveUp \/ Respond

NextClean == Defence \/ Attempt \/ GiveUp

NextExtract == Extract

Spec == Init /\ [][Next]_vars

SpecClean == InitClean /\ [][NextClean]_vars

SpecExtract == InitExtract /\ [][NextExtract]_vars

(***************************************************************************)
(* The claims                                                              *)
(***************************************************************************)
\* The failure record {error, original_string, error_details}.
IsFailureRecord(v) ==
  /\ v.t = "dict"
  /\ Len(v.items) = 3
  /\ v.items[2].v.t = "str"
  /\ v = FailureRecord(v.items[2].v.s)

\* A mapping whose keys, at every depth, are strings without upper-case
\* letters.
RECURSIVE KeysNormalized(_)
KeysNormalized(v) ==
  IF v.t = "dict"
  THEN \A j \in 1..Len(v.items) :
         /\ v.items[j].k.t = "str"
         /\ \A p \in 1..Len(v.items[j].k.s) : ~IsUpper(v.items[j].k.s[p])
         /\ KeysNormalized(v.items[j].v)
  ELSE IF v.t = "list" THEN \A j \in 1..Len(v.items) : KeysNormalized(v.items[j])
  ELSE TRUE

IsNormalizedMapping(v) == v.t = "dict" /\ KeysNormalized(v)

\* Every strategy was tried and every one gave a JSONDecodeError or a
\* SyntaxError.
AllParseErrors ==
  Len(attempts) = NumAttempts /\ \A k \in 1..NumAttempts : attempts[k] = "parse_error"

\* Every strategy was tried and none gave a value.
NoStrategySucceeded ==
  Len(attempts) = NumAttempts /\ \A k \in 1..NumAttempts : attempts[k] # "value"

\* C1: when all five strategies fail to parse, clean_json_string returns the
\* failure record whose original_string is the argument it was called with,
\* fence and surrounding whitespace included.
C1_OriginalStringIsRawInput ==
  (pc = "exit" /\ AllParseErrors)
    => result = [kind |-> "return", v |-> FailureRecord(argument)]

\* C2: clean_json_string never raises, and what it returns is a mapping with
\* normalized keys or the failure record.
C2_ReturnsMappingOrFailureRecord ==
  pc = "exit"
    => /\ result.kind = "return"
       /\ IsFailureRecord(result.v) \/ IsNormalizedMapping(result.v)

Unsupported(f) ==
  /\ ~endswith(lower(f.filename), <<".", "p", "d", "f">>)
  /\ ~endswith(lower(f.filename), <<".", "d", "o", "c", "x">>)
  /\ ~endswith(lower(f.filename), <<".", "t", "x", "t">>)

\* C3: a file whose extension is none of .pdf, .docx, .txt is answered with
\* status 400 and the detail 'Unsupported file type', whatever its content,
\* and only a failure to read a recognized type is answered with status 500.
C3_UnsupportedTypeIsClientError ==
  (pc = "done" /\ extracted.kind = "raise")
    => IF Unsupported(file)
       THEN /\ extracted.status = 400
            /\ response.status = 400
            /\ response.detail = <<"Unsupported file type">>
       ELSE response.status = 500

\* C4: for an argument that is valid JSON, clean_json_string returns a
\* mapping, which is the parsed value with every key at every depth
\* snake-cased, and not the failure record.
C4_ValidJsonGivesSnakeCasedMapping ==
  (pc = "exit" /\ json_loads(argument).ok)
    => /\ result.kind = "return"
       /\ result.v.t = "dict"
       /\ result.v = convert_to_snake_case(json_loads(argument).v)
       /\ ~IsFailureRecord(result.v)

\* C5: an extraction error ends the request with the error's status and
\* detail, with no request to the service and no recovery made; content of
\* the service on which every strategy fails is answered with status 200 and
\* the failure record as the body.
C5_ExtractionAbortsRecoveryFailureIsReturned ==
  /\ extracted.kind = "raise"
       => /\ pc = "done"
          /\ ~posted
          /\ attempts = <<>>
          /\ result = NoResult
          /\ response = [status |-> extracted.status, kind |-> "detail",
                         body |-> Unset, detail |-> extracted.detail]
  /\ (pc = "done" /\ NoStrategySucceeded)
       => /\ response.status = 200
          /\ response.kind = "content"
          /\ IsFailureRecord(response.body)

\* The key k rewritten: position by position, an underscore before an
\* upper-case letter that is not the first character, and the letter in lower
\* case.
RECURSIVE Rewritten(_, _)
Rewritten(k, p) ==
  IF p = 0 THEN <<>>
  ELSE Rewritten(k, p - 1)
       \o (IF p > 1 /\ IsUpper(k[p]) THEN <<"_">> ELSE <<>>)
       \o <<IF IsUpper(k[p]) THEN LowerChar(k[p]) ELSE k[p]>>

\* b is a with its keys rewritten: a mapping has the rewritten keys of a, each
\* once, with the rewritten value of the last pair of a that has this key; a
\* list has the rewritten elements in the same order; anything else is the
\* same.
RECURSIVE SnakeExact(_, _)
SnakeExact(a, b) ==
  IF a.t = "dict"
  THEN /\ b.t = "dict"
       /\ {b.items[j].k : j \in 1..Len(b.items)}
            = {StrV(Rewritten(a.items[i].k.s, Len(a.items[i].k.s))) : i \in 1..Len(a.items)}
       /\ \A i, j \in 1..Len(b.items) : b.items[i].k = b.items[j].k => i = j
       /\ \A j \in 1..Len(b.items) :
            \E i \in 1..Len(a.items) :
              /\ b.items[j].k = StrV(Rewritten(a.items[i].k.s, Len(a.items[i].k.s)))
              /\ \A h \in (i + 1)..Len(a.items) :
                   b.items[j].k # StrV(Rewritten(a.items[h].k.s, Len(a.items[h].k.s)))
              /\ SnakeExact(a.items[i].v, b.items[j].v)
  ELSE IF a.t = "list"
  THEN /\ b.t = "list"
       /\ Len(b.items) = Len(a.items)
       /\ \A j \in 1..Len(a.items) : SnakeExact(a.items[j], b.items[j])
  ELSE b = a

OverallScore == <<"o", "v", "e", "r", "a", "l", "l", "S", "c", "o", "r", "e">>
Overall_Score == <<"o", "v", "e", "r", "a", "l", "l", "_", "s", "c", "o", "r", "e">>

\* C6: what clean_json_string returns for a parsed value is that value with
\* every key of every mapping in it, through mappings and lists, rewritten:
\* an underscore before each upper-case letter but the first character, then
\* lower case; lists keep their order and length and scalars are unchanged;
\* overallScore becomes overall_score.
C6_KeyRewritingExact ==
  (pc = "exit" /\ parsed_json # Unset /\ result.kind = "return")
    => /\ SnakeExact(parsed_json, result.v)
       /\ parsed_json = DictV(<<[k |-> StrV(OverallScore), v |-> IntV(7)]>>)
            => result.v = DictV(<<[k |-> StrV(Overall_Score), v |-> IntV(7)]>>)

\* A mapping nested in a mapping, one key with an upper-case letter inside and
\* one starting with it, has been rewritten.
C6_Witness ==
  /\ pc = "exit"
  /\ parsed_json = DictV(<<[k |-> StrV(<<"a", "B">>),
                            v |-> DictV(<<[k |-> StrV(<<"A", "b">>), v |-> IntV(7)]>>)]>>)
  /\ result = [kind |-> "return",
               v |-> DictV(<<[k |-> StrV(<<"a", "_", "b">>),
                              v |-> DictV(<<[k |-> StrV(<<"a", "b">>), v |-> IntV(7)]>>)]>>)]

RECURSIVE SumLen(_)
SumLen(segs) == IF segs = <<>> THEN 0 ELSE Len(Head(segs)) + SumLen(Tail(segs))

\* text is the segments in order with one space between neighbours: segment
\* k starts after the k - 1 segments and separators before it.
Joined(segs, text) ==
  /\ Len(text) = SumLen(segs) + (IF segs = <<>> THEN 0 ELSE Len(segs) - 1)
  /\ \A k \in 1..Len(segs) :
       LET start == SumLen(SubSeq(segs, 1, k - 1)) + (k - 1)
       IN  /\ SubSeq(text, start + 1, start + Len(segs[k])) = segs[k]
           /\ k < Len(segs) => text[start + Len(segs[k]) + 1] = SP

NonEmpty(segs) == SelectSeq(segs, LAMBDA t : t # <<>>)

\* C7: the text of a PDF is all its pages' texts, the empty ones too, in
\* order with one space between neighbours (pages - 1 separators); the text
\* of a DOCX is its non-empty paragraphs' texts in order with one space
\* between neighbours (non-empty paragraphs - 1 separators).
C7_SegmentsJoinedBySingleSpace ==
  (pc = "done" /\ extracted.kind = "return")
    => /\ endswith(lower(file.filename), <<".", "p", "d", "f">>)
            => Joined(file.segs, extracted.text)
       /\ endswith(lower(file.filename), <<".", "d", "o", "c", "x">>)
            => Joined(NonEmpty(file.segs), extracted.text)

\* A DOCX with an empty paragraph between two others has been read.
C7_Witness ==
  /\ pc = "done"
  /\ file.filename = <<"c", "v", ".", "d", "o", "c", "x">>
  /\ file.format = "docx"
  /\ file.segs = <<<<"H", "i">>, <<>>, <<"H", "i">>>>
  /\ extracted = Return(<<"H", "i", SP, "H", "i">>)

\* C8: converting what convert_to_snake_case returned gives the same value
\* again, and a parsed value whose keys are already snake_case is returned as
\* it is.
C8_SnakeCaseIdempotent ==
  (pc = "exit" /\ parsed_json # Unset /\ result.kind = "return")
    => /\ convert_to_snake_case(result.v) = result.v
       /\ KeysNormalized(parsed_json) => result.v = parsed_json

\* A value with a camelCase key has been converted.
C8_Witness ==
  /\ pc = "exit"
  /\ result.kind = "return"
  /\ parsed_json.t = "dict"
  /\ \E j \in 1..Len(parsed_json.items) : parsed_json.items[j].k = StrV(<<"a", "B">>)
  /\ result.v # parsed_json

\* The strategies (a) to (e) as the documentation orders them.
StrategyInOrder(k, s) ==
  CASE k = 1 -> Loads(s)
    [] k = 2 -> Loads(EscapedNewlineSub(s, 1))
    [] k = 3 -> Loads(replace(replace(s, <<BS, DQ>>, <<DQ>>), <<BS, "n">>, <<SP>>))
    [] k = 4 -> Loads(AggressiveSub(s, 1))
    [] k = 5 -> With(literal_eval(s), LAMBDA r :
                  IF ~r.ok THEN ParseError
                  ELSE IF r.bad THEN OtherError
                  ELSE Value(r.v))

\* C9: the k-th attempt is strategy k of (a) to (e) on the working string;
\* every attempt before the last one failed to parse, so nothing is tried
\* after a success and the value returned is that of the first strategy that
\* succeeds; a working string that is valid JSON is settled by (a) alone; the
\* failure record is returned only after all five failed.
C9_StrategiesInOrder ==
  /\ Len(attempts) <= NumAttempts
  /\ \A k \in 1..Len(attempts) : attempts[k] = StrategyInOrder(k, json_string).kind
  /\ \A k \in 1..(Len(attempts) - 1) : attempts[k] = "parse_error"
  /\ (pc = "exit" /\ result.kind = "return")
       => IF attempts[Len(attempts)] = "value"
          THEN result.v
                 = convert_to_snake_case(StrategyInOrder(Len(attempts), json_string).v)
          ELSE AllParseErrors /\ result.v = FailureRecord(json_string)
  /\ (pc = "exit" /\ json_loads(json_string).ok) => attempts = <<"value">>
  /\ pc = "attempt" => result = NoResult

\* Strategies (a) and (b) failed and (c) gave the value returned.
C9_Witness ==
  /\ pc = "exit"
  /\ attempts = <<"parse_error", "parse_error", "value">>
  /\ result.kind = "return"

\* What is between the opening fence, with the rest of its line when a
\* newline follows it, and the closing fence of the trimmed text t.
Interior(t) ==
  LET body == SubSeq(t, 1, Len(t) - 3)
  IN  IF FirstNewline(body, 4) # 0 THEN From(body, FirstNewline(body, 4) + 1)
      ELSE From(body, 4)

\* C10: for an argument that, trimmed, starts and ends with the fence marker,
\* the working string the strategies are given is the interior content, also
\* when fence and content are on one line.
C10_WorkingStringIsInterior ==
  (pc \in {"attempt", "exit"} /\ IsFenced(argument) /\ Len(strip(argument)) >= 6)
    => json_string = Interior(strip(argument))
====
